---- MODULE Spec2Model ----
(***************************************************************************)
(* Model of operatorControl() in src/opcontrol.c: the teleoperated PID     *)
(* tuning loop.                                                            *)
(*                                                                         *)
(* Numbers.  The C code uses float.  Gains and the output are kept here in *)
(* fixed point, in units of 1/Scale = 0.001 (the finest tuning step), so   *)
(* kp = 10 stands for 0.01 and output = 1000 for 1.0.  setpoint, input,    *)
(* error, lastError, proportional, integral and derivative are whole       *)
(* numbers in the program (the joystick axis and the sensor are ints), and *)
(* are kept in natural units.  Float rounding is outside this model.       *)
(*                                                                         *)
(* Buttons.  toggleBtnGet(...) == BUTTON_PRESSED is an input of the cycle: *)
(* each control is queried at most once per cycle, and the set of controls *)
(* that report a pressed edge is chosen freely when they are queried.      *)
(***************************************************************************)
EXTENDS Integers, FiniteSets, Sequences, TLC

(***************************************************************************)
(* Bounds of the model                                                     *)
(***************************************************************************)
\* number of loop iterations explored
MaxTicks == 3
\* number of input events over a run: a pressed edge of a control, a
\* deflected joystick reading, a sensor reading that differs from the last
MaxEvents == 3

(***************************************************************************)
(* Program constants                                                       *)
(***************************************************************************)
\* fixed-point units per 1.0
Scale == 1000
\* float increments[] = { 0.001, 0.01, 0.1 }, in units of 1/Scale
increments == <<1, 10, 100>>
NumIncrements == 3
integralLimit == 100
inputMin == 7
inputMax == 4095
outputMin == -60
outputMax == 60
InitGain == 10
InitSetpoint == 2000

\* the controls registered with toggleBtnInit: group and direction
BtnEnable == "8D"
BtnKpUp == "7U"
BtnKpDown == "7D"
BtnKiUp == "5U"
BtnKiDown == "5D"
BtnKdUp == "6U"
BtnKdDown == "6D"
BtnKpZero == "8L"
BtnKiZero == "8U"
\* a copy-paste slip: the button of the line above
BtnKdZeroPaste == "8U"
BtnKdZero == "8R"
BtnCycle == "7R"

\* the controls read while tuning (lines 104-134)
TuneButtons ==
  {BtnCycle, BtnKpUp, BtnKpDown, BtnKpZero, BtnKiUp, BtnKiDown, BtnKiZero,
   BtnKdUp, BtnKdDown, BtnKdZero}

Buttons == TuneButtons \cup {BtnEnable}

\* the sets of tuning controls that can report a pressed edge in one cycle
\* when n input events are left
PressSets ==
  [n \in 0 .. MaxEvents |-> {P \in SUBSET TuneButtons : Cardinality(P) <= n}]

(***************************************************************************)
(* Inputs of the model                                                     *)
(***************************************************************************)
\* values of joystickGetAnalog(1, 3): centred, in range, and far out of range
JoyValues == {-2100, -127, 0, 127, 2100}
\* values of analogRead(inputChannel)
SensorValues == {0, 1800, 2050, 2100, 4095}
\* gains the operator may have tuned to before the explored cycles
TunedGains == {-110, 0, 10, 121}
\* the sensor reading of the cycle before the explored ones
TunedInput == 2050

VARIABLES
  pc,            \* position in the loop body
  isEnabled, i, kp, ki, kd, setpoint,
  error, lastError, input, output,
  proportional, integral, derivative,
  motor,         \* the speed last given to motorSet(outputChannel, .)
  motorWrites,   \* calls of motorSet so far
  pressed,       \* controls that reported BUTTON_PRESSED in this cycle
  joy,           \* joystick axis value read in this cycle
  old,           \* the program's variables at the start of this cycle
  prev,          \* the cycle before this one: its pressed controls and
                 \* the gains at its start; kept (on) only in the runs that
                 \* compare two consecutive cycles, those from InitTuned
  ticks,         \* completed cycles
  nEvents        \* input events so far

vars == <<pc, isEnabled, i, kp, ki, kd, setpoint, error, lastError, input,
          output, proportional, integral, derivative, motor, motorWrites,
          pressed, joy, old, prev, ticks, nEvents>>

(***************************************************************************)
(* The arithmetic of the loop body                                         *)
(***************************************************************************)
\* abs(): an int function, so its float argument is first converted to int;
\* error is a whole number here, which the conversion leaves as it is
Abs(x) == IF x < 0 THEN -x ELSE x

\* float -> int conversion of motorSet's argument: truncation toward zero
ToInt(x) == IF x >= 0 THEN x \div Scale ELSE -((-x) \div Scale)

\* a slip in the wrap test: > for >=
NextIndexSkip(idx) == IF idx + 1 > NumIncrements THEN 0 ELSE idx + 1

\* if (++i >= 3) i = 0;
NextIndex(idx) == IF idx + 1 >= NumIncrements THEN 0 ELSE idx + 1

\* if (pressed) { if (++i >= 3) i = 0; }
CycleIncrement(idx, cyc) == IF cyc THEN NextIndex(idx) ELSE idx

\* a slip: three separate ifs in place of the else-if chain
AdjustGainSum(g, up, down, zero, inc) ==
  LET a == IF up THEN g + inc ELSE g
      b == IF down THEN a - inc ELSE a
  IN  IF zero THEN 0 ELSE b

\* a slip: the zero branch left as a copy of the decrease branch
AdjustGainZeroPaste(g, up, down, zero, inc) ==
  IF up THEN g + inc
  ELSE IF down THEN g - inc
  ELSE IF zero THEN g - inc
  ELSE g

\* a slip: the decrease branch left as a copy of the increase branch
AdjustGainDownAdds(g, up, down, zero, inc) ==
  IF up THEN g + inc
  ELSE IF down THEN g + inc
  ELSE IF zero THEN 0
  ELSE g

\* if (up) g += inc; else if (down) g -= inc; else if (zero) g = 0;
AdjustGain(g, up, down, zero, inc) ==
  IF up THEN g + inc
  ELSE IF down THEN g - inc
  ELSE IF zero THEN 0
  ELSE g

\* a slip: the lower limit left out
ClampSetpointNoMin(s) == IF s > inputMax THEN inputMax ELSE s

\* if (setpoint > inputMax) setpoint = inputMax;
\* else if (setpoint < inputMin) setpoint = inputMin;
ClampSetpoint(s) ==
  IF s > inputMax THEN inputMax
  ELSE IF s < inputMin THEN inputMin
  ELSE s

\* a slip: the joystick value limited to the 127 per cycle of the comment
SetpointUpdateLimited(sp, j) ==
  ClampSetpoint(sp + (IF j > 127 THEN 127 ELSE IF j < -127 THEN -127 ELSE j))

\* setpoint += joystickGetAnalog(1, 3); followed by the two limits
SetpointUpdate(sp, j) == ClampSetpoint(sp + j)

\* a slip in the anti-windup test: <= for <
IntegralTermLeq(integ, err) ==
  IF Abs(err) <= integralLimit THEN integ + err ELSE 0

\* if (abs(error) < integralLimit) integral += error; else integral = 0;
IntegralTerm(integ, err) ==
  IF Abs(err) < integralLimit THEN integ + err ELSE 0

\* output = (kp * proportional) + (ki * integral) + (kd * derivative);
WeightedSum(p, integ, d, gp, gi, gd) == (gp * p) + (gi * integ) + (gd * d)

\* a slip: the lower limit left out
ClampOutputNoMin(o) == IF o > outputMax * Scale THEN outputMax * Scale ELSE o

\* if (output < outputMin) output = outputMin;
\* else if (output > outputMax) output = outputMax;
ClampOutput(o) ==
  IF o < outputMin * Scale THEN outputMin * Scale
  ELSE IF o > outputMax * Scale THEN outputMax * Scale
  ELSE o

\* if (pressed) isEnabled = !isEnabled;
Toggle(en, t) == IF t THEN ~en ELSE en

\* a slip: the pid control block placed above the on/off block, so that it
\* tests the flag as it was before the toggle
BranchFlagBefore(before, after) == before

\* the flag tested by if (isEnabled) at line 155: the one after the toggle
\* of lines 150-152
BranchFlag(before, after) == after

\* The pid variables as one record
PidState ==
  [error |-> error, lastError |-> lastError, output |-> output,
   proportional |-> proportional, integral |-> integral,
   derivative |-> derivative]

\* a slip: lastError assigned before the derivative is taken
EnabledBranchStale(st, in, sp, gp, gi, gd) ==
  LET e == in - sp
      integ == IntegralTerm(st.integral, e)
      d == e - e
  IN  [error |-> e, lastError |-> e,
       output |-> ClampOutput(WeightedSum(e, integ, d, gp, gi, gd)),
       proportional |-> e, integral |-> integ, derivative |-> d]

\* the enabled branch, lines 156-181
EnabledBranch(st, in, sp, gp, gi, gd) ==
  LET e == in - sp
      integ == IntegralTerm(st.integral, e)
      d == e - st.lastError
  IN  [error |-> e, lastError |-> e,
       output |-> ClampOutput(WeightedSum(e, integ, d, gp, gi, gd)),
       proportional |-> e, integral |-> integ, derivative |-> d]

\* a slip: integral not reset while disabled
DisabledBranchKeepIntegral(st) == [st EXCEPT !.output = 0]

\* a slip: lastError reset along with the integral
DisabledBranchResetAll(st) ==
  [st EXCEPT !.integral = 0, !.output = 0, !.lastError = 0]

\* the disabled branch, lines 184-185
DisabledBranch(st) == [st EXCEPT !.integral = 0, !.output = 0]

\* the program's variables, as recorded at the start of a cycle
Snapshot ==
  [isEnabled |-> isEnabled, i |-> i, kp |-> kp, ki |-> ki, kd |-> kd,
   setpoint |-> setpoint, error |-> error, lastError |-> lastError,
   input |-> input, output |-> output, integral |-> integral]

(***************************************************************************)
(* Initial state: lines 61-101                                             *)
(***************************************************************************)
Init ==
  /\ pc = "tune"
  /\ isEnabled = FALSE
  /\ i = 0
  /\ kp = InitGain /\ ki = InitGain /\ kd = InitGain
  /\ setpoint = InitSetpoint
  /\ error = 0 /\ lastError = 0
  /\ input = 0 /\ output = 0
  /\ proportional = 0 /\ integral = 0 /\ derivative = 0
  /\ motor = 0
  /\ motorWrites = 0
  /\ pressed = {}
  /\ joy = 0
  /\ old = [isEnabled |-> FALSE, i |-> 0, kp |-> InitGain, ki |-> InitGain,
            kd |-> InitGain, setpoint |-> InitSetpoint, error |-> 0,
            lastError |-> 0, input |-> 0, output |-> 0, integral |-> 0]
  /\ prev = [on |-> FALSE, pressed |-> {}, kp |-> InitGain, ki |-> InitGain,
             kd |-> InitGain]
  /\ ticks = 0
  /\ nEvents = 0

\* a slip: the gain block placed above the cycle block, so that it uses the
\* index as it was at the start of the cycle
ActiveIndexBefore(before, after) == before

\* the index read by increments[i] at lines 113-133: the one after the cycle
\* block of lines 105-109
ActiveIndex(before, after) == after

(***************************************************************************)
(* Lines 104-134: cycle through the increments, adjust kp, ki and kd       *)
(***************************************************************************)
Tune ==
  /\ pc = "tune"
  /\ ticks < MaxTicks
  /\ \E P \in PressSets[MaxEvents - nEvents] :
       /\ LET idx == CycleIncrement(i, BtnCycle \in P)
              inc == increments[ActiveIndex(i, idx) + 1]
          IN  /\ i' = idx
              /\ kp' = AdjustGain(kp, BtnKpUp \in P, BtnKpDown \in P,
                                  BtnKpZero \in P, inc)
              /\ ki' = AdjustGain(ki, BtnKiUp \in P, BtnKiDown \in P,
                                  BtnKiZero \in P, inc)
              /\ kd' = AdjustGain(kd, BtnKdUp \in P, BtnKdDown \in P,
                                  BtnKdZero \in P, inc)
       /\ pressed' = P
       /\ nEvents' = nEvents + Cardinality(P)
  /\ pc' = "control"
  /\ UNCHANGED <<isEnabled, setpoint, error, lastError, input, output,
                 proportional, integral, derivative, motor, motorWrites, joy,
                 old, prev, ticks>>

\* input events in the readings of one cycle: joystick j, sensor s, and
\* whether the enable control reports a pressed edge; the first sensor
\* reading of a run is free
Cost(j, s, t) ==
  (IF t THEN 1 ELSE 0) + (IF j # 0 THEN 1 ELSE 0)
    + (IF ticks > 0 /\ s # input THEN 1 ELSE 0)

(***************************************************************************)
(* Lines 136-186: setpoint, sensor reading, enable toggle, pid control     *)
(***************************************************************************)
Control ==
  /\ pc = "control"
  /\ \E j \in JoyValues, s \in SensorValues, t \in BOOLEAN :
       /\ nEvents + Cost(j, s, t) <= MaxEvents
       /\ LET sp == SetpointUpdate(setpoint, j)
              en == Toggle(isEnabled, t)
              st == IF BranchFlag(isEnabled, en)
                    THEN EnabledBranch(PidState, s, sp, kp, ki, kd)
                    ELSE DisabledBranch(PidState)
          IN  /\ setpoint' = sp
              /\ input' = s
              /\ isEnabled' = en
              /\ error' = st.error
              /\ lastError' = st.lastError
              /\ output' = st.output
              /\ proportional' = st.proportional
              /\ integral' = st.integral
              /\ derivative' = st.derivative
       /\ joy' = j
       /\ pressed' = IF t THEN pressed \cup {BtnEnable} ELSE pressed
       /\ nEvents' = nEvents + Cost(j, s, t)
  /\ pc' = "motor"
  /\ UNCHANGED <<i, kp, ki, kd, motor, motorWrites, old, prev, ticks>>

(***************************************************************************)
(* Line 188: motorSet(outputChannel, output)                               *)
(* MotorSetIfEnabled is a slip: the call placed inside the enabled branch. *)
(***************************************************************************)
MotorSetIfEnabled ==
  /\ pc = "motor"
  /\ motor' = IF isEnabled THEN ToInt(output) ELSE motor
  /\ motorWrites' = IF isEnabled THEN motorWrites + 1 ELSE motorWrites
  /\ pc' = "refresh"
  /\ UNCHANGED <<isEnabled, i, kp, ki, kd, setpoint, error, lastError, input,
                 output, proportional, integral, derivative, pressed, joy,
                 old, prev, ticks, nEvents>>

MotorSet ==
  /\ pc = "motor"
  /\ motor' = ToInt(output)
  /\ motorWrites' = motorWrites + 1
  /\ pc' = "refresh"
  /\ UNCHANGED <<isEnabled, i, kp, ki, kd, setpoint, error, lastError, input,
                 output, proportional, integral, derivative, pressed, joy,
                 old, prev, ticks, nEvents>>

(***************************************************************************)
(* Lines 190-191: toggleBtnUpdateAll(); delay(20); and back to line 103    *)
(* RefreshWhileEnabled is a slip: while (isEnabled) for while (true).      *)
(***************************************************************************)
RefreshWhileEnabled ==
  /\ pc = "refresh"
  /\ isEnabled
  /\ pc' = "tune"
  /\ pressed' = {}
  /\ joy' = 0
  /\ old' = Snapshot
  /\ prev' = IF prev.on
              THEN [on |-> TRUE, pressed |-> pressed, kp |-> old.kp,
                    ki |-> old.ki, kd |-> old.kd]
              ELSE prev
  /\ ticks' = ticks + 1
  /\ UNCHANGED <<isEnabled, i, kp, ki, kd, setpoint, error, lastError, input,
                 output, proportional, integral, derivative, motor,
                 motorWrites, nEvents>>

Refresh ==
  /\ pc = "refresh"
  /\ pc' = "tune"
  /\ pressed' = {}
  /\ joy' = 0
  /\ old' = Snapshot
  /\ prev' = IF prev.on
              THEN [on |-> TRUE, pressed |-> pressed, kp |-> old.kp,
                    ki |-> old.ki, kd |-> old.kd]
              ELSE prev
  /\ ticks' = ticks + 1
  /\ UNCHANGED <<isEnabled, i, kp, ki, kd, setpoint, error, lastError, input,
                 output, proportional, integral, derivative, motor,
                 motorWrites, nEvents>>

Next == Tune \/ Control \/ MotorSet \/ Refresh

Spec == Init /\ [][Next]_vars

(***************************************************************************)
(* The loop entered after earlier tuning: any increment index, gains from  *)
(* TunedGains, controller still disabled and setpoint untouched.  One      *)
(* cycle (with its motor write) and one input event of the exploration are *)
(* taken as spent.                                                         *)
(***************************************************************************)
InitTuned ==
  /\ pc = "tune"
  /\ isEnabled = FALSE
  /\ i \in 0 .. (NumIncrements - 1)
  /\ kp \in TunedGains /\ ki = kp /\ kd = kp
  /\ setpoint = InitSetpoint
  /\ error = 0 /\ lastError = 0
  /\ input = TunedInput /\ output = 0
  /\ proportional = 0 /\ integral = 0 /\ derivative = 0
  /\ motor = 0
  /\ motorWrites = 1
  /\ pressed = {}
  /\ joy = 0
  /\ old = Snapshot
  /\ prev = [on |-> TRUE, pressed |-> {}, kp |-> kp, ki |-> ki, kd |-> kd]
  /\ ticks = 1
  /\ nEvents = 1

SpecTuned == InitTuned /\ [][Next]_vars

(***************************************************************************)
(* Vocabulary of the properties                                            *)
(***************************************************************************)
\* the controls of this cycle's tuning have been read
AfterTune == pc \in {"control", "motor", "refresh"}
\* this cycle's control computation has run
Computed == pc \in {"motor", "refresh"}
\* the cycle has done all its work: only the debounce refresh and the wait remain
AtEnd == pc = "refresh"

Clamp(x, lo, hi) == IF x < lo THEN lo ELSE IF x > hi THEN hi ELSE x

\* the step selected by index idx, in units of 1/Scale
Step(idx) == CASE idx = 0 -> 1 [] idx = 1 -> 10 [] idx = 2 -> 100

\* what priority increase > decrease > zero makes of gain g
ByPriority(g, up, down, zero, inc) ==
  CASE up -> g + inc
    [] ~up /\ down -> g - inc
    [] ~up /\ ~down /\ zero -> 0
    [] OTHER -> g

(***************************************************************************)
(* C1: output lies in [-60, 60] after an enabled cycle and is exactly 0    *)
(* after a disabled cycle; the speed handed to the motor is always within  *)
(* [-60, 60].                                                              *)
(***************************************************************************)
C1_OutputWithinLimits ==
  /\ -60 * Scale <= output /\ output <= 60 * Scale
  /\ (Computed /\ ~isEnabled) => output = 0
  /\ -60 <= motor /\ motor <= 60
  /\ (AtEnd /\ ~isEnabled) => motor = 0

\* an enabled cycle whose weighted sum exceeds the upper limit
C1_Witness ==
  /\ AtEnd /\ isEnabled
  /\ (kp * error) + (ki * integral) + (kd * derivative) > 60 * Scale
  /\ output = 60 * Scale
  /\ motor = 60

(***************************************************************************)
(* C2: at the end of a disabled cycle integral is 0; at the end of an      *)
(* enabled cycle with |error| >= 100 integral is 0; at the end of an       *)
(* enabled cycle with |error| < 100 integral is its previous value plus    *)
(* error, where error = input - setpoint.                                  *)
(***************************************************************************)
C2_IntegralResetOrAccumulate ==
  Computed =>
    /\ ~isEnabled => integral = 0
    /\ isEnabled => error = input - setpoint
    /\ (isEnabled /\ (error >= 100 \/ error <= -100)) => integral = 0
    /\ (isEnabled /\ -100 < error /\ error < 100) =>
         integral = old.integral + error

\* the boundary error 100 resets an integral accumulated in earlier cycles
C2_Witness ==
  /\ AtEnd /\ isEnabled
  /\ old.integral # 0
  /\ error = 100
  /\ integral = 0

(***************************************************************************)
(* C3: 7 <= setpoint <= 4095 in every reachable state, for any joystick    *)
(* axis value.                                                             *)
(***************************************************************************)
C3_SetpointClamped == 7 <= setpoint /\ setpoint <= 4095

\* a joystick value that would take the setpoint below the lower limit
C3_Witness ==
  /\ AtEnd
  /\ old.setpoint + joy < 7
  /\ setpoint = 7

(***************************************************************************)
(* C4: the increment index starts at 0, is always in {0, 1, 2}, changes    *)
(* only in a cycle with a pressed edge on group 7 / right, and then        *)
(* becomes (index + 1) mod 3.                                              *)
(***************************************************************************)
C4_IncrementIndexCycles ==
  /\ i \in {0, 1, 2}
  /\ (i + 1) \in DOMAIN increments
  /\ (ticks = 0 /\ pc = "tune") => i = 0
  /\ pc = "tune" => i = old.i
  /\ AfterTune => i = IF BtnCycle \in pressed THEN (old.i + 1) % 3 ELSE old.i

\* a press that wraps the index from 2 back to 0
C4_Witness ==
  /\ AtEnd
  /\ old.i = 2
  /\ BtnCycle \in pressed
  /\ i = 0

(***************************************************************************)
(* C5, as stated: in every cycle in which the zero control of a gain has a *)
(* pressed edge, that gain is 0 at the end of the cycle, whatever other    *)
(* controls are pressed in the same cycle.                                 *)
(***************************************************************************)
C5_ZeroUnconditional ==
  AtEnd =>
    /\ BtnKpZero \in pressed => kp = 0
    /\ BtnKiZero \in pressed => ki = 0
    /\ BtnKdZero \in pressed => kd = 0

(***************************************************************************)
(* C5, amended: in every cycle in which the zero control of a gain has a   *)
(* pressed edge and neither the increase nor the decrease control of that  *)
(* same gain has one, that gain is 0 at the end of the cycle, whatever its *)
(* previous value and whatever the other controls do.                      *)
(***************************************************************************)
C5_ZeroWhenNotAdjusted ==
  AfterTune =>
    /\ (BtnKpZero \in pressed /\ {BtnKpUp, BtnKpDown} \cap pressed = {})
         => kp = 0
    /\ (BtnKiZero \in pressed /\ {BtnKiUp, BtnKiDown} \cap pressed = {})
         => ki = 0
    /\ (BtnKdZero \in pressed /\ {BtnKdUp, BtnKdDown} \cap pressed = {})
         => kd = 0

\* kp zeroed from a nonzero value while another gain's control is pressed too
C5_Witness ==
  /\ AtEnd
  /\ BtnKpZero \in pressed
  /\ {BtnKpUp, BtnKpDown} \cap pressed = {}
  /\ pressed \ {BtnKpZero} # {}
  /\ old.kp # 0
  /\ kp = 0

(***************************************************************************)
(* C6: within one cycle each gain is modified by at most one of its three  *)
(* actions, with priority increase > decrease > zero; simultaneous presses *)
(* never sum.                                                              *)
(***************************************************************************)
C6_OneActionPerGain ==
  AfterTune =>
    /\ kp = ByPriority(old.kp, BtnKpUp \in pressed, BtnKpDown \in pressed,
                       BtnKpZero \in pressed, Step(i))
    /\ ki = ByPriority(old.ki, BtnKiUp \in pressed, BtnKiDown \in pressed,
                       BtnKiZero \in pressed, Step(i))
    /\ kd = ByPriority(old.kd, BtnKdUp \in pressed, BtnKdDown \in pressed,
                       BtnKdZero \in pressed, Step(i))

\* all three controls of kd pressed at once: only the increase is applied
C6_Witness ==
  /\ AtEnd
  /\ {BtnKdUp, BtnKdDown, BtnKdZero} \subseteq pressed
  /\ kd = old.kd + Step(i)
  /\ kd # 0

(***************************************************************************)
(* C7: for every gain, a cycle that applies its increase action followed   *)
(* by a cycle that applies its decrease action with the same increment     *)
(* index leaves the gain where it was before the two cycles (in fixed      *)
(* point); likewise decrease followed by increase.                         *)
(***************************************************************************)
RoundTrip(up, down, g, g0) ==
  /\ (/\ up \in prev.pressed
      /\ up \notin pressed /\ down \in pressed
      /\ BtnCycle \notin pressed) => g = g0
  /\ (/\ up \notin prev.pressed /\ down \in prev.pressed
      /\ up \in pressed
      /\ BtnCycle \notin pressed) => g = g0

C7_IncreaseDecreaseRoundTrip ==
  (AfterTune /\ prev.on) =>
    /\ RoundTrip(BtnKpUp, BtnKpDown, kp, prev.kp)
    /\ RoundTrip(BtnKiUp, BtnKiDown, ki, prev.ki)
    /\ RoundTrip(BtnKdUp, BtnKdDown, kd, prev.kd)

\* ki raised and then lowered by the coarsest step 0.1
C7_Witness ==
  /\ AtEnd /\ prev.on
  /\ i = 2
  /\ BtnKiUp \in prev.pressed
  /\ BtnKiDown \in pressed /\ BtnKiUp \notin pressed
  /\ BtnCycle \notin pressed
  /\ old.ki = prev.ki + 100
  /\ ki = prev.ki

(***************************************************************************)
(* C8: a disabled cycle leaves lastError unchanged; at the end of an       *)
(* enabled cycle lastError is that cycle's error, input - setpoint.        *)
(***************************************************************************)
C8_LastErrorOnlyWhenEnabled ==
  /\ ~Computed => lastError = old.lastError
  /\ (Computed /\ ~isEnabled) => lastError = old.lastError
  /\ (Computed /\ isEnabled) => lastError = input - setpoint

\* a disabled cycle that keeps the error of an earlier enabled cycle
C8_Witness ==
  /\ AtEnd /\ ~isEnabled
  /\ lastError # 0
  /\ lastError # input - setpoint

(***************************************************************************)
(* C9: on the first enabled cycle after a disabled one (or after start),   *)
(* integral is exactly that cycle's error when |error| < 100 and exactly 0 *)
(* otherwise: nothing accumulated before the disable contributes.          *)
(***************************************************************************)
C9_NoStaleIntegralOnEnable ==
  (Computed /\ ~old.isEnabled /\ isEnabled) =>
    integral = IF -100 < input - setpoint /\ input - setpoint < 100
               THEN input - setpoint
               ELSE 0

\* re-enabled after a disabled cycle that followed an enabled, accumulating
\* one (lastError is written by enabled cycles only)
C9_Witness ==
  /\ AtEnd
  /\ ~old.isEnabled /\ isEnabled
  /\ old.lastError # 0 /\ -100 < old.lastError /\ old.lastError < 100
  /\ error # 0
  /\ integral = error

(***************************************************************************)
(* C10: on every enabled cycle output = clamp(kp*error + ki*integral' +    *)
(* kd*(error - lastError), -60, 60), with error = input - setpoint taken   *)
(* with the setpoint updated in this cycle, integral' the integral after   *)
(* this cycle's accumulate-or-reset step, lastError the value from before  *)
(* this cycle and the gains those after this cycle's adjustments.  With    *)
(* kp = 0.01, ki = 0, kd = 0, input 2100, setpoint 2000, integral 0 and    *)
(* lastError 0: error = 100, integral 0, output 1.0.                       *)
(***************************************************************************)
C10_OutputFormula ==
  (Computed /\ isEnabled) =>
    LET sp == Clamp(old.setpoint + joy, 7, 4095)
        e == input - sp
        integ == IF -100 < e /\ e < 100 THEN old.integral + e ELSE 0
        gp == ByPriority(old.kp, BtnKpUp \in pressed, BtnKpDown \in pressed,
                         BtnKpZero \in pressed, Step(i))
        gi == ByPriority(old.ki, BtnKiUp \in pressed, BtnKiDown \in pressed,
                         BtnKiZero \in pressed, Step(i))
        gd == ByPriority(old.kd, BtnKdUp \in pressed, BtnKdDown \in pressed,
                         BtnKdZero \in pressed, Step(i))
    IN  /\ error = e
        /\ integral = integ
        /\ output = Clamp((gp * e) + (gi * integ) + (gd * (e - old.lastError)),
                          -60 * Scale, 60 * Scale)
        /\ (/\ kp = 10 /\ ki = 0 /\ kd = 0
            /\ input = 2100 /\ setpoint = 2000
            /\ old.integral = 0 /\ old.lastError = 0)
             => (error = 100 /\ integral = 0 /\ output = Scale)

\* the scenario of the example: gains 0.01, 0, 0, input 2100, setpoint 2000
C10_Witness ==
  /\ AtEnd /\ isEnabled
  /\ kp = 10 /\ ki = 0 /\ kd = 0
  /\ input = 2100 /\ setpoint = 2000
  /\ old.integral = 0 /\ old.lastError = 0
  /\ output = Scale

(***************************************************************************)
(* C11: the setpoint update is unconditional: in every cycle, enabled or   *)
(* disabled and whatever controls are pressed, the new setpoint is         *)
(* clamp(old setpoint + joystick axis value, 7, 4095); nothing else in the *)
(* cycle modifies setpoint.                                                *)
(***************************************************************************)
C11_SetpointUpdateUnconditional ==
  /\ ~Computed => setpoint = old.setpoint
  /\ Computed => setpoint = Clamp(old.setpoint + joy, 7, 4095)

\* a disabled cycle with controls pressed that moves the setpoint by more
\* than 127 without reaching a limit
C11_Witness ==
  /\ AtEnd /\ ~isEnabled
  /\ pressed # {}
  /\ joy = 2100
  /\ setpoint = old.setpoint + 2100
  /\ setpoint < 4095

(***************************************************************************)
(* C12: the motor is written exactly once in every cycle, on the enabled   *)
(* and on the disabled branch, after the cycle's control computation and   *)
(* before the debounce refresh and the wait; the value written is the      *)
(* output computed in that cycle (0 on a disabled cycle), never one left   *)
(* over from an earlier cycle.                                             *)
(***************************************************************************)
C12_MotorWrittenOncePerCycle ==
  \* no write before the control computation is done, one after it
  /\ ~AtEnd => motorWrites = ticks
  /\ AtEnd => motorWrites = ticks + 1
  \* the speed is this cycle's output, cut to a whole number toward zero
  /\ AtEnd =>
       /\ motor * output >= 0
       /\ (IF output < 0 THEN -output ELSE output)
            - (IF motor < 0 THEN -motor ELSE motor) * Scale \in 0 .. (Scale - 1)
       /\ ~isEnabled => motor = 0
       /\ isEnabled =>
            output = Clamp((kp * (input - setpoint)) + (ki * integral)
                             + (kd * ((input - setpoint) - old.lastError)),
                           -60 * Scale, 60 * Scale)

\* a disabled cycle writes 0 over the nonzero speed of the cycle before
C12_Witness ==
  /\ AtEnd /\ ~isEnabled
  /\ old.output >= Scale
  /\ motor = 0
  /\ motorWrites = ticks + 1

(***************************************************************************)
(* C13: the loop never returns and never gets stuck: in every reachable    *)
(* state the loop is at a position of its body and its next step can be    *)
(* taken, so the cycle runs through to its wait and another one begins.    *)
(* (The only states without a next step are those where MaxTicks cycles    *)
(* have been explored.)                                                    *)
(***************************************************************************)
C13_LoopNeverStops ==
  /\ pc \in {"tune", "control", "motor", "refresh"}
  /\ (pc = "tune" /\ ticks >= MaxTicks) \/ ENABLED Next

\* a further cycle under way after two completed ones, with the controller
\* disabled throughout
C13_Witness ==
  /\ ticks > 1
  /\ pc = "control"
  /\ ~isEnabled /\ lastError = 0

(***************************************************************************)
(* C14: the Enabled flag is false initially, changes only in a cycle with  *)
(* a pressed edge on group 8 / down, and is then flipped exactly once; the *)
(* flip comes before the control computation of the same cycle, so that    *)
(* cycle already runs the pid branch (when turning on) or forces integral  *)
(* and output to 0 (when turning off).                                     *)
(***************************************************************************)
C14_EnableToggle ==
  /\ (ticks = 0 /\ ~Computed) => ~isEnabled
  /\ ~Computed => isEnabled = old.isEnabled
  /\ Computed =>
       isEnabled = (IF "8D" \in pressed THEN ~old.isEnabled ELSE old.isEnabled)
  /\ (Computed /\ "8D" \in pressed /\ isEnabled) =>
       /\ error = input - setpoint
       /\ lastError = input - setpoint
       /\ integral = IF -100 < input - setpoint /\ input - setpoint < 100
                     THEN input - setpoint
                     ELSE 0
  /\ (Computed /\ "8D" \in pressed /\ ~isEnabled) =>
       /\ integral = 0
       /\ output = 0
       /\ lastError = old.lastError

\* the cycle that sees the press turns the controller on and drives the motor
C14_Witness ==
  /\ AtEnd
  /\ "8D" \in pressed
  /\ ~old.isEnabled /\ isEnabled
  /\ error # old.error
  /\ output # 0

(***************************************************************************)
(* C15: the increment index is advanced before the gains are adjusted:     *)
(* in a cycle with a pressed edge on the cycle control and on a gain's     *)
(* increase (or decrease) control, that gain changes by the newly selected *)
(* step increments[(old index + 1) mod 3], not by the step that was active *)
(* at the start of the cycle.                                              *)
(***************************************************************************)
C15_IndexAdvancedBeforeGains ==
  (AfterTune /\ "7R" \in pressed) =>
    LET new == Step((old.i + 1) % 3)
    IN  /\ i = (old.i + 1) % 3
        /\ "7U" \in pressed => kp = old.kp + new
        /\ ("7U" \notin pressed /\ "7D" \in pressed) => kp = old.kp - new
        /\ "5U" \in pressed => ki = old.ki + new
        /\ ("5U" \notin pressed /\ "5D" \in pressed) => ki = old.ki - new
        /\ "6U" \in pressed => kd = old.kd + new
        /\ ("6U" \notin pressed /\ "6D" \in pressed) => kd = old.kd - new

\* index 0 at the start of the cycle, cycle and increase of kp pressed
\* together: kp moves by 0.01 (the step of index 1), not by 0.001
C15_Witness ==
  /\ AtEnd
  /\ {"7R", "7U"} \subseteq pressed
  /\ old.i = 0
  /\ kp = old.kp + 10

(***************************************************************************)
(* C16: each gain is changed only by its own three controls.  kp is        *)
(* unchanged in every cycle with no pressed edge on 7/up, 7/down or        *)
(* 8/left; ki likewise for 5/up, 5/down, 8/up; kd likewise for 6/up,       *)
(* 6/down, 8/right.  The enable toggle, the cycle press, the setpoint      *)
(* update and the control computation never modify a gain.                 *)
(***************************************************************************)
C16_GainFrame ==
  /\ pc = "tune" => (kp = old.kp /\ ki = old.ki /\ kd = old.kd)
  /\ pressed \cap {"7U", "7D", "8L"} = {} => kp = old.kp
  /\ pressed \cap {"5U", "5D", "8U"} = {} => ki = old.ki
  /\ pressed \cap {"6U", "6D", "8R"} = {} => kd = old.kd

\* a cycle with the enable toggle, the cycle press and ki's increase: the
\* controller runs, the index and ki move, kp and kd stay
C16_Witness ==
  /\ AtEnd
  /\ pressed = {"5U", "7R", "8D"}
  /\ isEnabled
  /\ output # 0
  /\ i # old.i
  /\ ki # old.ki
  /\ kp = old.kp
  /\ kd = old.kd

====
